---- MODULE Spec2Model ----
(***************************************************************************)
(* Tenant-isolated upload service of stefando/uploadDemoAWS.               *)
(*                                                                         *)
(* The model follows the upload Lambda's UploadService (UploadFile,        *)
(* InitiateMultipartUpload, RefreshPresignedUrls, CompleteMultipartUpload, *)
(* AbortMultipartUpload), the credential exchange AssumeRoleForTenant and  *)
(* the TenantS3Access policy of template.yaml.  Every network call of a    *)
(* request is one step.  STS and S3 are external: each call may fail,      *)
(* which is a nondeterministic choice of the step.  A Lambda instance      *)
(* serves one request at a time (Spec); instances run concurrently and     *)
(* share nothing but STS and the bucket (SpecConc).                        *)
(*                                                                         *)
(* Strings are sequences of characters; "/" is the path separator.  The    *)
(* empty string is the empty sequence, the empty upload id is 0.           *)
(***************************************************************************)
EXTENDS Integers, Sequences, FiniteSets, TLC

\* ------------------------------------------------------------- bounds
\* Lambda instances serving requests concurrently
MaxReqs == 2
\* multipart transfers the storage backend hands out upload ids for
MaxUploads == 1
\* object keys generated (uuid.New() calls)
MaxKeys == 1
\* the clock runs from 0 to MaxNow seconds, in steps of TickStep
MaxNow == 300
TickStep == 300
\* bits of Go's int and int64 in the model (64 in the program), and bits of
\* its int32 (32 in the program)
IntBits == 6
PartBits == 3

\* ------------------------------------------------- program constants
MinSessionDuration == 900
LongSessionDuration == 10800
PresignedURLBuffer == 300
MinPresignedURLDuration == 300
DefaultPresignedURLDuration == 7200

\* ------------------------------------------------------------ inputs
Reqs == 1..MaxReqs
UploadIDs == 1..MaxUploads

\* tenant identifiers the validator can emit: any non-empty string
TenantIDs == { <<"a">>, <<"b">>, <<"a", "/", "b">> }
\* the tenantID argument of a service call ("" is rejected by validation)
TenantArgs == TenantIDs \cup { <<>> }

\* GetTokenExpiration(ctx): (value, ok); ok = FALSE when the context
\* carries no expiration
NoExpiration == [ok |-> FALSE, val |-> 0]
TokenExpirations ==
    { NoExpiration } \cup { [ok |-> TRUE, val |-> v] : v \in {60, 3900, 12000} }

\* two's complement value of x in a signed integer of the given width
Wrap(x, bits) == ((x + 2^(bits - 1)) % 2^bits) - 2^(bits - 1)
\* int64 arithmetic and the conversion int32(i)
Int64(x) == Wrap(x, IntBits)
Int32(x) == Wrap(x, PartBits)
MaxInt64 == 2^(IntBits - 1) - 1
\* Go's integer division truncates toward zero
Quot(a, b) == IF (a >= 0) = (b >= 0) THEN a \div b ELSE -((-a) \div b)

\* InitiateUploadRequest.Size / PartSize
Sizes == {0, 1, 3, MaxInt64}
PartSizes == {0, 2}
\* a part number that fits an int but no int32
WidePart == 2^PartBits + 1
\* RefreshUploadRequest.PartNumbers
PartNumberLists == { <<>>, <<2, 1>>, <<1, 1>>, <<WidePart>> }
\* CompleteUploadRequest.PartETags (part numbers; the tags are opaque)
PartTagLists == { <<>>, <<1>> }

Max(a, b) == IF a >= b THEN a ELSE b

\* strings.HasPrefix on character sequences
HasPrefix(s, p) == Len(p) <= Len(s) /\ SubSeq(s, 1, Len(p)) = p
HasSuffix(s, p) == Len(p) <= Len(s) /\ SubSeq(s, Len(s) - Len(p) + 1, Len(s)) = p

\* --------------------------------------------------------- key naming
\* fmt.Sprintf("%d/%02d/%02d", year, month, day) of time.Now().UTC(); the
\* clock of the model starts at 1970-01-01 00:00:00 UTC
DatePath(t) == << "1970", "/", "01", "/", "0" \o ToString((t \div 86400) + 1) >>

\* uuid.New().String(): the n-th identifier drawn
FileID(n) == << "u" \o ToString(n) >>

\* <tenant>/YYYY/MM/DD/<guid>.json
generateS3Key(tenantID, t, n) ==
    tenantID \o <<"/">> \o DatePath(t) \o <<"/">> \o FileID(n) \o <<".json">>

\* faulty variant: the multipart key built by the direct upload's generator
MultipartKeyAsJson(tenantID, t, n) == generateS3Key(tenantID, t, n)

\* <tenant>/YYYY/MM/DD/<guid>.raw
generateS3KeyForMultipart(tenantID, t, n) ==
    tenantID \o <<"/">> \o DatePath(t) \o <<"/">> \o FileID(n) \o <<".raw">>

\* ------------------------------------------------ credential exchange
NoCred == <<"-">>

\* faulty variant: every session tagged with one fixed tenant
SessionTagFixed(tenantID) == <<"a">>

\* the value of the tenant_id session tag AssumeRoleForTenant asks for
SessionTag(tenantID) == tenantID

\* TenantS3Access: Resource <bucket>/${aws:PrincipalTag/tenant_id}/*
PolicyAllows(tag, key) ==
    /\ tag # NoCred
    /\ HasPrefix(key, tag \o <<"/">>)

\* ------------------------------------------------ presign expiration
\* faulty variant: the buffer before the token's expiry is not taken off
PresignExpirationNoBuffer(exp, t) ==
    IF exp.ok THEN Max(exp.val - t, MinPresignedURLDuration)
    ELSE DefaultPresignedURLDuration

\* calculatePresignExpiration(ctx) evaluated when time.Now() = t (seconds)
calculatePresignExpiration(exp, t) ==
    IF exp.ok
    THEN LET timeUntilExpiry == exp.val - t
         IN IF timeUntilExpiry > 0
            THEN LET presignExpiration == timeUntilExpiry - PresignedURLBuffer
                 IN IF presignExpiration < MinPresignedURLDuration
                    THEN MinPresignedURLDuration
                    ELSE presignExpiration
            ELSE MinPresignedURLDuration
    ELSE DefaultPresignedURLDuration

\* numParts := int((req.Size + req.PartSize - 1) / req.PartSize)
NumParts(size, partSize) == Quot(Int64(Int64(size + partSize) - 1), partSize)

\* ----------------------------------------------------- the authorizer
\* a value of a JSON object or of an authorizer context map, by its type
Absent == [kind |-> "absent", str |-> <<>>, num |-> 0]
Str(s) == [kind |-> "string", str |-> s, num |-> 0]
Num(n) == [kind |-> "number", str |-> <<>>, num |-> n]
\* v.(string) and v.(float64) with the ok result dropped: the zero value
\* when v is of another type
AsString(v) == IF v.kind = "string" THEN v.str ELSE <<>>
AsFloat64(v) == IF v.kind = "number" THEN v.num ELSE 0
\* fmt.Sprintf("%d", n): the decimal text of n
FormatInt(n) == Str(<< ToString(n) >>)

\* OpenID providers that answer discovery at their issuer URL: the user
\* pools of tenant a and of tenant b, and a provider of somebody else
Providers == {"pool", "poolB", "other"}
\* VALID_ISSUERS of the authorizer's environment, and the pool of a tenant
VALID_ISSUERS == {"pool", "poolB"}
UserPool(tenantID) == IF tenantID = <<"a">> THEN "pool" ELSE "poolB"

\* a bearer token: whether it has three parts with a JSON payload, its iss
\* claim, the provider whose key signed it, and its claims
GoodToken(tenantID, exp, iss) ==
    [wellFormed |-> TRUE, iss |-> iss, key |-> iss, exp |-> Num(exp),
     tenant_id |-> Str(tenantID), username |-> Str(<<"tom">>)]
TokenA == GoodToken(<<"a">>, 3900, "pool")
Tokens ==
    { TokenA,
      GoodToken(<<"b">>, 12000, "poolB"),
      GoodToken(<<"a">>, 60, "pool"),
      GoodToken(<<"a">>, 3900, "other"),
      GoodToken(<<"a">>, 3900, "nowhere"),
      [TokenA EXCEPT !.wellFormed = FALSE],
      [TokenA EXCEPT !.iss = ""],
      [TokenA EXCEPT !.key = "other"],
      [TokenA EXCEPT !.tenant_id = Absent],
      [TokenA EXCEPT !.tenant_id = Num(7)],
      [TokenA EXCEPT !.tenant_id = Str(<<>>)],
      [TokenA EXCEPT !.username = Absent] }

\* the Authorization header: absent, or a scheme prefix and a token
NoHeader == [present |-> FALSE, prefix |-> "", token |-> TokenA]
Headers ==
    { NoHeader }
    \cup { [present |-> TRUE, prefix |-> "Bearer ", token |-> t] : t \in Tokens }
    \cup { [present |-> TRUE, prefix |-> p, token |-> TokenA] :
              p \in {"bearer ", "", "Basic "} }

\* the empty string in the place of the token
NoToken == [TokenA EXCEPT !.wellFormed = FALSE, !.iss = "", !.key = ""]
\* the headers of the authorizer on its own: more tokens, every spelling
\* of the scheme, and a scheme with nothing behind it
BearerSpellings == {"Bearer ", "bearer ", "BEARER ", "bEaReR "}
AuthTokens ==
    Tokens \cup
    { [GoodToken(<<"b">>, 12000, "other") EXCEPT !.key = "pool"],
      [GoodToken(<<"b">>, 12000, "poolB") EXCEPT !.key = "pool"],
      GoodToken(<<"a">>, 3900, "poolB"),
      NoToken }
AuthHeaders ==
    { NoHeader }
    \cup { [present |-> TRUE, prefix |-> p, token |-> t] :
              p \in BearerSpellings \cup {"", "Basic "}, t \in AuthTokens }

\* faulty variant: the scheme is compared as it is spelled
ToLowerIdentity(p) == p

\* strings.ToLower on the prefixes of the model
ToLower(p) == IF p \in BearerSpellings THEN "bearer " ELSE p

\* stripBearerPrefix: the token that is left to validate; a string of at
\* most 7 characters, or one with another scheme in front of the token, is
\* handed on whole and is no JWT
stripBearerPrefix(h) ==
    IF h.prefix = "" THEN h.token
    ELSE IF ToLower(h.prefix) = "bearer " /\ h.token # NoToken THEN h.token
    ELSE [h.token EXCEPT !.wellFormed = FALSE]

NoTokenInfo == [TenantID |-> <<>>, Username |-> <<>>, Expiration |-> 0]
Invalid(why) == [ok |-> FALSE, why |-> why, info |-> NoTokenInfo]

\* faulty variant: a token without tenant_id claim is accepted
ValidateTokenAnyTenant(tok, t, reachable) ==
    IF ~tok.wellFormed \/ tok.iss = "" \/ tok.iss \notin Providers
       \/ ~reachable \/ tok.key # tok.iss \/ t > AsFloat64(tok.exp)
    THEN Invalid("rejected")
    ELSE [ok |-> TRUE, why |-> "",
          info |-> [TenantID |-> AsString(tok.tenant_id),
                    Username |-> AsString(tok.username),
                    Expiration |-> AsFloat64(tok.exp)]]

\* faulty variant: the claims are read without verifying the signature
ValidateTokenNoSignature(tok, t, reachable) ==
    IF ~tok.wellFormed \/ tok.iss = "" \/ tok.iss \notin Providers
       \/ ~reachable \/ t > AsFloat64(tok.exp) \/ AsString(tok.tenant_id) = <<>>
    THEN Invalid("rejected")
    ELSE [ok |-> TRUE, why |-> "",
          info |-> [TenantID |-> AsString(tok.tenant_id),
                    Username |-> AsString(tok.username),
                    Expiration |-> AsFloat64(tok.exp)]]

\* ValidateToken at time t; reachable: the issuer's discovery and key
\* endpoints answer.  exp is a whole number of seconds, which int64(exp)
\* leaves as it is
ValidateToken(tok, t, reachable) ==
    IF ~tok.wellFormed THEN Invalid("invalid token format")
    ELSE IF tok.iss = "" THEN Invalid("missing or invalid issuer claim")
    ELSE IF tok.iss \notin Providers \/ ~reachable
    THEN Invalid("failed to create OIDC provider")
    ELSE IF tok.key # tok.iss \/ t > AsFloat64(tok.exp)
    THEN Invalid("token verification failed")
    ELSE IF AsString(tok.tenant_id) = <<>> THEN Invalid("missing tenant_id claim")
    ELSE [ok |-> TRUE, why |-> "",
          info |-> [TenantID |-> AsString(tok.tenant_id),
                    Username |-> AsString(tok.username),
                    Expiration |-> AsFloat64(tok.exp)]]

\* the authorizer's response; error is the handler's second result
NoContext == [tenant_id |-> Absent, username |-> Absent, token_expiration |-> Absent]
NoAuthz ==
    [principalID |-> <<>>, effect |-> "none", resource |-> "",
     hasContext |-> FALSE, context |-> NoContext, error |-> "nil"]
Deny(methodArn) ==
    [principalID |-> <<"unauthorized">>, effect |-> "Deny", resource |-> methodArn,
     hasContext |-> FALSE, context |-> NoContext, error |-> "nil"]
Allow(info, methodArn) ==
    [principalID |-> info.TenantID, effect |-> "Allow", resource |-> methodArn,
     hasContext |-> TRUE,
     context |-> [tenant_id |-> Str(info.TenantID),
                  username |-> Str(info.Username),
                  token_expiration |-> FormatInt(info.Expiration)],
     error |-> "nil"]

\* faulty variant: the principal of an Allow is the user, not the tenant
handlerPrincipalIsUser(h, methodArn, t, reachable) ==
    IF ~h.present THEN Deny(methodArn)
    ELSE LET v == ValidateToken(stripBearerPrefix(h), t, reachable)
         IN IF ~v.ok THEN Deny(methodArn)
            ELSE [Allow(v.info, methodArn) EXCEPT !.principalID = v.info.Username]

\* handler of the authorizer Lambda
handler(h, methodArn, t, reachable) ==
    IF ~h.present THEN Deny(methodArn)
    ELSE LET v == ValidateToken(stripBearerPrefix(h), t, reachable)
         IN IF ~v.ok THEN Deny(methodArn) ELSE Allow(v.info, methodArn)

\* lambdaHandler of the upload Lambda: the tenant and the token expiration
\* it takes from the event's authorizer map
ContextTenant(a) ==
    IF a.hasContext THEN AsString(a.context.tenant_id) ELSE <<>>
ContextExpiration(a) ==
    IF a.hasContext /\ a.context.token_expiration.kind = "number"
    THEN [ok |-> TRUE, val |-> a.context.token_expiration.num]
    ELSE NoExpiration

\* faulty variant: a successful abort is answered like the other calls
StatusForAbortOK(op, err) ==
    IF err # "ok" THEN 500 ELSE IF op = "submit" THEN 201 ELSE 200

\* the status a handler answers the service's result with
StatusFor(op, err) ==
    IF err # "ok" THEN 500
    ELSE IF op = "submit" THEN 201
    ELSE IF op = "abort" THEN 204
    ELSE 200

\* -------------------------------------------------------------- state
VARIABLES
    now,        \* time.Now(), seconds
    req,        \* per request slot: arguments, locals, position and response
    uploads,    \* storage backend: multipart transfers by upload id
    objects,    \* storage backend: keys of the objects written
    nextKey     \* number of the next uuid.New()

vars == << now, req, uploads, objects, nextKey >>

\* a transfer at the backend; tenant is the session that created it, via
\* and endedBy the call and the session that completed or aborted it
NoUpload == [state |-> "none", key |-> <<>>, tenant |-> <<>>,
             via |-> "", endedBy |-> <<>>, parts |-> {}]

\* a request slot with no request in it
Blank ==
    [op |-> "none", pc |-> "idle", tenant |-> <<>>, exp |-> NoExpiration,
     startAt |-> 0, cancelled |-> FALSE, calls |-> <<>>,
     uploadID |-> 0, objectKey |-> <<>>, size |-> 0, partSize |-> 0,
     parts |-> <<>>, tags |-> <<>>,
     cred |-> NoCred, numParts |-> 0, i |-> 0, presignExp |-> 0, calcAt |-> 0,
     urls |-> {}, failedAt |-> 0,
     err |-> "", code |-> "", outID |-> 0, outKey |-> <<>>, outUrls |-> {},
     route |-> "", hdr |-> NoHeader, authAt |-> 0, oidcUp |-> FALSE,
     authz |-> NoAuthz, status |-> 0, respHeaders |-> {}, setHeaders |-> {}]

Init ==
    /\ now = 0
    /\ req = [r \in Reqs |-> Blank]
    /\ uploads = [u \in UploadIDs |-> NoUpload]
    /\ objects = {}
    /\ nextKey = 1

\* the request enters the service with its context and arguments
Enter(r, op, tenantID, exp) ==
    [req[r] EXCEPT !.op = op, !.tenant = tenantID, !.exp = exp, !.startAt = now]

\* faulty variant: the URLs signed so far are returned with the error
FailWithPartialResult(q, class, code) ==
    [q EXCEPT !.pc = "done", !.err = class, !.code = code, !.outUrls = q.urls]

\* return ..., fmt.Errorf(...): an error and nothing else
Fail(q, class, code) ==
    [q EXCEPT !.pc = "done", !.err = class, !.code = code, !.urls = {},
              !.outID = 0, !.outKey = <<>>, !.outUrls = {}]

\* ---------------------------------------------------- storage backend
\* the outcome of an object-level S3 call made with credential tag
S3Code(cancelled, healthy, tag, key) ==
    IF cancelled THEN "Canceled"
    ELSE IF ~healthy THEN "Unavailable"
    ELSE IF ~PolicyAllows(tag, key) THEN "AccessDenied"
    ELSE "ok"

\* the upload id names a transfer in progress under that key
InProgress(uid, key) ==
    /\ uid \in UploadIDs
    /\ uploads[uid].state = "inprogress"
    /\ uploads[uid].key = key

\* faulty variant: the backend takes the call in every state of the transfer
S3FinishCodeAnyState(cancelled, healthy, tag, key, uid) ==
    S3Code(cancelled, healthy, tag, key)

\* CompleteMultipartUpload / AbortMultipartUpload at the backend
S3FinishCode(cancelled, healthy, tag, key, uid) ==
    IF S3Code(cancelled, healthy, tag, key) # "ok"
    THEN S3Code(cancelled, healthy, tag, key)
    ELSE IF InProgress(uid, key) THEN "ok" ELSE "NoSuchUpload"

FreeIDs == { u \in UploadIDs : uploads[u].state = "none" }
NewUploadID == CHOOSE u \in FreeIDs : \A v \in FreeIDs : u <= v

\* the identity of the Lambda's execution role, from which cfg is loaded
BaseIdentity == <<"LambdaExecutionRole">>

\* faulty variant: the exchange is signed with tenant credentials
StsSignerElevated(q) == SessionTag(q.tenant)

\* the identity s.stsClient signs with: the one of the cfg it was built from
StsSigner(q) == BaseIdentity

\* the request with one more call in its log: the API, the session tag
\* asked for (STS) or carried by the credential used (S3), the identity
\* that signs the call, and the outcome
Called(q, api, tag, dur, key, uid, code) ==
    [q EXCEPT !.calls = Append(q.calls,
        [api |-> api, tag |-> tag, dur |-> dur, key |-> key,
         uploadID |-> uid, code |-> code,
         by |-> IF api = "AssumeRole" THEN StsSigner(q) ELSE q.cred])]

\* ------------------------------------------------------- the service
\* where a service method is entered: called directly on a free instance,
\* or by the handler the request was routed to
AtEntry(r) == req[r].pc \in {"idle", "routed"}

\* UploadFile up to the key: tenant check, token lifetime check, key
StartUpload(r, tenantID, exp) ==
    /\ AtEntry(r)
    /\ LET q == Enter(r, "submit", tenantID, exp)
       IN IF tenantID = <<>>
          THEN /\ req' = [req EXCEPT ![r] = Fail(q, "validation", "")]
               /\ UNCHANGED nextKey
          ELSE IF exp.ok /\ exp.val - now < MinSessionDuration
          THEN /\ req' = [req EXCEPT ![r] = Fail(q, "validation", "")]
               /\ UNCHANGED nextKey
          ELSE /\ nextKey <= MaxKeys
               /\ req' = [req EXCEPT ![r] =
                            [q EXCEPT !.pc = "assume",
                                      !.objectKey = generateS3Key(tenantID, now, nextKey)]]
               /\ nextKey' = nextKey + 1
    /\ UNCHANGED << now, uploads, objects >>

\* validateInitiateRequest
validateInitiateRequest(tenantID, size, partSize) ==
    /\ tenantID # <<>>
    /\ size > 0
    /\ partSize > 0

\* InitiateMultipartUpload up to the key
StartInitiate(r, tenantID, exp, size, partSize) ==
    /\ AtEntry(r)
    /\ LET q == [Enter(r, "initiate", tenantID, exp) EXCEPT
                    !.size = size, !.partSize = partSize]
       IN IF ~validateInitiateRequest(tenantID, size, partSize)
          THEN /\ req' = [req EXCEPT ![r] = Fail(q, "validation", "")]
               /\ UNCHANGED nextKey
          ELSE /\ nextKey <= MaxKeys
               /\ req' = [req EXCEPT ![r] =
                            [q EXCEPT !.pc = "assume",
                                      !.objectKey =
                                          generateS3KeyForMultipart(tenantID, now, nextKey)]]
               /\ nextKey' = nextKey + 1
    /\ UNCHANGED << now, uploads, objects >>

\* validateCompleteRequest
validateCompleteRequest(tenantID, uid, tags, key) ==
    /\ tenantID # <<>>
    /\ uid # 0
    /\ Len(tags) # 0
    /\ key # <<>>

StartComplete(r, tenantID, exp, uid, key, tags) ==
    /\ AtEntry(r)
    /\ LET q == [Enter(r, "complete", tenantID, exp) EXCEPT
                    !.uploadID = uid, !.objectKey = key, !.tags = tags]
       IN req' = [req EXCEPT ![r] =
                    IF validateCompleteRequest(tenantID, uid, tags, key)
                    THEN [q EXCEPT !.pc = "assume"]
                    ELSE Fail(q, "validation", "")]
    /\ UNCHANGED << now, uploads, objects, nextKey >>

\* AbortMultipartUpload checks the tenant and the upload id before the
\* credential exchange, the object key after it
validateAbortRequest(tenantID, uid) ==
    /\ tenantID # <<>>
    /\ uid # 0

StartAbort(r, tenantID, exp, uid, key) ==
    /\ AtEntry(r)
    /\ LET q == [Enter(r, "abort", tenantID, exp) EXCEPT
                    !.uploadID = uid, !.objectKey = key]
       IN req' = [req EXCEPT ![r] =
                    IF validateAbortRequest(tenantID, uid)
                    THEN [q EXCEPT !.pc = "assume"]
                    ELSE Fail(q, "validation", "")]
    /\ UNCHANGED << now, uploads, objects, nextKey >>

\* validateRefreshRequest
validateRefreshRequest(tenantID, uid, parts, key) ==
    /\ tenantID # <<>>
    /\ uid # 0
    /\ Len(parts) # 0
    /\ key # <<>>

StartRefresh(r, tenantID, exp, uid, key, parts) ==
    /\ AtEntry(r)
    /\ LET q == [Enter(r, "refresh", tenantID, exp) EXCEPT
                    !.uploadID = uid, !.objectKey = key, !.parts = parts]
       IN req' = [req EXCEPT ![r] =
                    IF validateRefreshRequest(tenantID, uid, parts, key)
                    THEN [q EXCEPT !.pc = "assume"]
                    ELSE Fail(q, "validation", "")]
    /\ UNCHANGED << now, uploads, objects, nextKey >>

\* the duration class each operation asks the exchange for
DurationFor(op) ==
    IF op \in {"initiate", "refresh"} THEN LongSessionDuration ELSE MinSessionDuration

\* the position after a successful exchange
AfterAssume(q, t) ==
    CASE q.op = "submit" -> [q EXCEPT !.pc = "put"]
      [] q.op = "initiate" -> [q EXCEPT !.pc = "create"]
      [] q.op = "complete" -> [q EXCEPT !.pc = "complete"]
      [] q.op = "abort" ->
            IF q.objectKey = <<>> THEN Fail(q, "validation", "")
            ELSE [q EXCEPT !.pc = "abort"]
      [] OTHER ->
            [q EXCEPT !.pc = "presign", !.i = 1,
                      !.presignExp = calculatePresignExpiration(q.exp, t),
                      !.calcAt = t]

\* faulty variant: a rejected exchange is repeated
AssumeRoleRetry(r, granted) ==
    /\ req[r].pc = "assume"
    /\ LET q == req[r]
           tag == SessionTag(q.tenant)
           good == granted /\ ~q.cancelled
           q1 == Called(q, "AssumeRole", tag, DurationFor(q.op), <<>>, 0,
                        IF good THEN "ok" ELSE "Rejected")
       IN req' = [req EXCEPT ![r] =
                    IF good THEN AfterAssume([q1 EXCEPT !.cred = tag], now)
                    ELSE IF Len(q.calls) = 0 THEN q1
                    ELSE Fail(q1, "credential", "Rejected")]
    /\ UNCHANGED << now, uploads, objects, nextKey >>

\* AssumeRoleForTenant: one exchange with the service's base identity
AssumeRole(r, granted) ==
    /\ req[r].pc = "assume"
    /\ LET q == req[r]
           tag == SessionTag(q.tenant)
           good == granted /\ ~q.cancelled
           q1 == Called(q, "AssumeRole", tag, DurationFor(q.op), <<>>, 0,
                        IF good THEN "ok" ELSE "Rejected")
       IN req' = [req EXCEPT ![r] =
                    IF good THEN AfterAssume([q1 EXCEPT !.cred = tag], now)
                    ELSE Fail(q1, "credential", "Rejected")]
    /\ UNCHANGED << now, uploads, objects, nextKey >>

\* faulty variant: a failed write leaves the object behind
PutObjectPartial(r, healthy) ==
    /\ req[r].pc = "put"
    /\ LET q == req[r]
           code == S3Code(q.cancelled, healthy, q.cred, q.objectKey)
           q1 == Called(q, "PutObject", q.cred, 0, q.objectKey, 0, code)
       IN /\ objects' = objects \cup {q.objectKey}
          /\ req' = [req EXCEPT ![r] =
                        IF code = "ok"
                        THEN [q1 EXCEPT !.pc = "done", !.err = "ok",
                                        !.outKey = q.objectKey]
                        ELSE Fail(q1, "transfer", code)]
    /\ UNCHANGED << now, uploads, nextKey >>

\* PutObject of UploadFile
PutObject(r, healthy) ==
    /\ req[r].pc = "put"
    /\ LET q == req[r]
           code == S3Code(q.cancelled, healthy, q.cred, q.objectKey)
           q1 == Called(q, "PutObject", q.cred, 0, q.objectKey, 0, code)
       IN /\ objects' = IF code = "ok" THEN objects \cup {q.objectKey} ELSE objects
          /\ req' = [req EXCEPT ![r] =
                        IF code = "ok"
                        THEN [q1 EXCEPT !.pc = "done", !.err = "ok",
                                        !.outKey = q.objectKey]
                        ELSE Fail(q1, "transfer", code)]
    /\ UNCHANGED << now, uploads, nextKey >>

\* a presigned URL under its key in the response map: what it addresses
\* (PartNumber is int32(part)), how long it is valid, who signed it
Capability(q, part, t) ==
    [part |-> part, partNumber |-> Int32(part),
     key |-> q.objectKey, uploadID |-> q.uploadID,
     expires |-> q.presignExp, signedAt |-> t, tag |-> q.cred]

\* presignedUrls[part] = url
PutUrl(urls, cap) == { c \in urls : c.part # cap.part } \cup { cap }

\* CreateMultipartUpload, then the part count and the expiration
CreateUpload(r, healthy) ==
    /\ req[r].pc = "create"
    /\ LET q == req[r]
           code == S3Code(q.cancelled, healthy, q.cred, q.objectKey)
       IN IF code # "ok"
          THEN /\ req' = [req EXCEPT ![r] =
                            Fail(Called(q, "CreateMultipartUpload", q.cred, 0,
                                        q.objectKey, 0, code), "transfer", code)]
               /\ UNCHANGED uploads
          ELSE /\ FreeIDs # {}
               /\ LET u == NewUploadID
                      n == NumParts(q.size, q.partSize)
                      q1 == [Called(q, "CreateMultipartUpload", q.cred, 0,
                                    q.objectKey, u, code)
                               EXCEPT !.uploadID = u, !.numParts = n,
                                      !.presignExp =
                                          calculatePresignExpiration(q.exp, now),
                                      !.calcAt = now]
                  IN /\ uploads' = [uploads EXCEPT ![u] =
                                       [NoUpload EXCEPT !.state = "inprogress",
                                                        !.key = q.objectKey,
                                                        !.tenant = q.tenant]]
                     /\ req' = [req EXCEPT ![r] =
                                   IF n >= 1
                                   THEN [q1 EXCEPT !.pc = "presign", !.i = 1]
                                   ELSE [q1 EXCEPT !.pc = "done", !.err = "ok",
                                                   !.outID = u,
                                                   !.outKey = q.objectKey]]
    /\ UNCHANGED << now, objects, nextKey >>

\* the part number the loop is at, and the number of rounds of the loop
PartAt(q) == IF q.op = "initiate" THEN q.i ELSE q.parts[q.i]
Rounds(q) == IF q.op = "initiate" THEN q.numParts ELSE Len(q.parts)

\* the response of initiate / refresh once every URL is there
Respond(q) ==
    IF q.op = "initiate"
    THEN [q EXCEPT !.pc = "done", !.err = "ok", !.outUrls = q.urls,
                   !.outID = q.uploadID, !.outKey = q.objectKey]
    ELSE [q EXCEPT !.pc = "done", !.err = "ok", !.outUrls = q.urls]

\* faulty variant: initiate returns the error without aborting the transfer
PresignFailedNoAbort(q) ==
    [Fail(q, "transfer", "PresignFailed") EXCEPT !.failedAt = q.i]

\* a failed PresignUploadPart: initiate goes on to abort the transfer,
\* refresh returns the error
PresignFailed(q) ==
    IF q.op = "initiate"
    THEN [q EXCEPT !.pc = "compabort", !.failedAt = q.i, !.urls = {}]
    ELSE [Fail(q, "transfer", "PresignFailed") EXCEPT !.failedAt = q.i]

\* one round of the loop over PresignUploadPart
Presign(r, signed) ==
    /\ req[r].pc = "presign"
    /\ LET q == req[r]
           q1 == [q EXCEPT !.urls = PutUrl(q.urls, Capability(q, PartAt(q), now))]
       IN req' = [req EXCEPT ![r] =
                    IF ~signed THEN PresignFailed(q)
                    ELSE IF q.i >= Rounds(q) THEN Respond(q1)
                    ELSE [q1 EXCEPT !.i = q.i + 1]]
    /\ UNCHANGED << now, uploads, objects, nextKey >>

\* the backend's transfers after AbortMultipartUpload / CompleteMultipartUpload
Finished(code, uid, state, via, tenantID) ==
    IF code = "ok"
    THEN [uploads EXCEPT ![uid].state = state, ![uid].via = via,
                         ![uid].endedBy = tenantID]
    ELSE uploads

\* _, _ = tenantS3Client.AbortMultipartUpload(...) after a failed presign:
\* the outcome of the call is dropped
CompensatingAbort(r, healthy) ==
    /\ req[r].pc = "compabort"
    /\ LET q == req[r]
           code == S3FinishCode(q.cancelled, healthy, q.cred, q.objectKey, q.uploadID)
           q1 == Called(q, "AbortMultipartUpload", q.cred, 0, q.objectKey,
                        q.uploadID, code)
       IN /\ uploads' = Finished(code, q.uploadID, "aborted", "initiate", q.tenant)
          /\ req' = [req EXCEPT ![r] = Fail(q1, "transfer", "PresignFailed")]
    /\ UNCHANGED << now, objects, nextKey >>

\* CompleteMultipartUpload of the request's upload id and key
CompleteCall(r, healthy) ==
    /\ req[r].pc = "complete"
    /\ LET q == req[r]
           code == S3FinishCode(q.cancelled, healthy, q.cred, q.objectKey, q.uploadID)
           q1 == Called(q, "CompleteMultipartUpload", q.cred, 0, q.objectKey,
                        q.uploadID, code)
       IN /\ uploads' = Finished(code, q.uploadID, "completed", "complete", q.tenant)
          /\ req' = [req EXCEPT ![r] =
                        IF code = "ok"
                        THEN [q1 EXCEPT !.pc = "done", !.err = "ok",
                                        !.outKey = q.objectKey]
                        ELSE Fail(q1, "transfer", code)]
    /\ UNCHANGED << now, objects, nextKey >>

\* AbortMultipartUpload of the request's upload id and key
AbortCall(r, healthy) ==
    /\ req[r].pc = "abort"
    /\ LET q == req[r]
           code == S3FinishCode(q.cancelled, healthy, q.cred, q.objectKey, q.uploadID)
           q1 == Called(q, "AbortMultipartUpload", q.cred, 0, q.objectKey,
                        q.uploadID, code)
       IN /\ uploads' = Finished(code, q.uploadID, "aborted", "abort", q.tenant)
          /\ req' = [req EXCEPT ![r] =
                        IF code = "ok"
                        THEN [q1 EXCEPT !.pc = "done", !.err = "ok"]
                        ELSE Fail(q1, "transfer", code)]
    /\ UNCHANGED << now, objects, nextKey >>

\* ------------------------------------------------------- environment
\* the deadline of the request's context passes while it is being served
Cancel(r) ==
    /\ req[r].pc \notin {"idle", "done"}
    /\ ~req[r].cancelled
    /\ req' = [req EXCEPT ![r].cancelled = TRUE]
    /\ UNCHANGED << now, uploads, objects, nextKey >>

\* the response is delivered and the slot takes the next request
Reset(r) ==
    /\ req[r].pc = "done"
    /\ req' = [req EXCEPT ![r] = Blank]
    /\ UNCHANGED << now, uploads, objects, nextKey >>

Tick ==
    /\ now + TickStep <= MaxNow
    /\ now' = now + TickStep
    /\ UNCHANGED << req, uploads, objects, nextKey >>

\* upload id and object key a caller may name: those of any transfer the
\* backend has seen (its own or another tenant's), the key possibly left
\* empty, or nothing at all
Named ==
    { <<0, <<>> >> } \cup
    UNION { { <<u, uploads[u].key>>, <<u, <<>> >> } :
                u \in { v \in UploadIDs : uploads[v].state # "none" } }

\* the calls a request makes once it has entered the service
Steps(R) ==
    \/ \E r \in R, granted \in BOOLEAN : AssumeRole(r, granted)
    \/ \E r \in R, healthy \in BOOLEAN : PutObject(r, healthy)
    \/ \E r \in R, healthy \in BOOLEAN : CreateUpload(r, healthy)
    \/ \E r \in R, signed \in BOOLEAN : Presign(r, signed)
    \/ \E r \in R, healthy \in BOOLEAN : CompensatingAbort(r, healthy)
    \/ \E r \in R, healthy \in BOOLEAN : CompleteCall(r, healthy)
    \/ \E r \in R, healthy \in BOOLEAN : AbortCall(r, healthy)

\* the service steps of the instances R, their requests drawn from the
\* tenants T, the token expirations E, the sizes SZ, the part sizes PS, the
\* part number lists PN and the part tag lists PT (complete and abort never
\* read the expiration: their context is drawn without)
Serve(R, T, E, SZ, PS, PN, PT) ==
    \/ \E r \in R, t \in T, e \in E :
            StartUpload(r, t, e)
    \/ \E r \in R, t \in T, e \in E, sz \in SZ, ps \in PS :
            StartInitiate(r, t, e, sz, ps)
    \/ \E r \in R, t \in T, n \in Named, tags \in PT :
            StartComplete(r, t, NoExpiration, n[1], n[2], tags)
    \/ \E r \in R, t \in T, n \in Named :
            StartAbort(r, t, NoExpiration, n[1], n[2])
    \/ \E r \in R, t \in T, e \in E, n \in Named, parts \in PN :
            StartRefresh(r, t, e, n[1], n[2], parts)
    \/ Steps(R)

\* one instance, one request after the other, every input, a running clock
\* and request deadlines
Next ==
    \/ Serve({1}, TenantArgs, TokenExpirations, Sizes, PartSizes,
             PartNumberLists, PartTagLists)
    \/ Reset(1)
    \/ Cancel(1)
    \/ Tick

Spec == Init /\ [][Next]_vars

\* MaxReqs invocations in flight at once, each on an instance of its own,
\* with well-formed requests of two tenants
ConcTenants == { <<"a">>, <<"b">> }

NextConc ==
    Serve(Reqs, ConcTenants, { NoExpiration }, { 3 }, { 2 }, { <<1>> }, { <<1>> })

SpecConc == Init /\ [][NextConc]_vars

\* ------------------------------------------------- the HTTP front end
Routes == {"submit", "initiate", "complete", "abort", "refresh"}

\* API Gateway calls the authorizer for a request to a route and, on
\* Allow, invokes the upload Lambda with the response's context
Authorizer(r, route, h, reachable) ==
    /\ req[r].pc = "idle"
    /\ LET a == handler(h, route, now, reachable)
       IN req' = [req EXCEPT ![r] =
                    [req[r] EXCEPT !.route = route, !.hdr = h, !.authAt = now,
                                   !.oidcUp = reachable, !.authz = a,
                                   !.pc = IF a.effect = "Allow" THEN "invoked"
                                          ELSE "denied"]]
    /\ UNCHANGED << now, uploads, objects, nextKey >>

\* the upload Lambda is invoked with an event that has no authorizer map
InvokeDirect(r, route) ==
    /\ req[r].pc = "idle"
    /\ req' = [req EXCEPT ![r] = [req[r] EXCEPT !.route = route, !.pc = "invoked"]]
    /\ UNCHANGED << now, uploads, objects, nextKey >>

\* the upload Lambda is invoked with an event whose authorizer map does
\* not come from the authorizer
Events ==
    { [NoAuthz EXCEPT !.hasContext = TRUE, !.context.tenant_id = v] :
          v \in {Absent, Str(<<>>), Num(7)} }
InvokeWith(r, route, a) ==
    /\ req[r].pc = "idle"
    /\ req' = [req EXCEPT ![r] =
                 [req[r] EXCEPT !.route = route, !.authz = a, !.pc = "invoked"]]
    /\ UNCHANGED << now, uploads, objects, nextKey >>

\* responseRecorder.Header() builds a new http.Header from r.headers, and
\* Set changes that one: the recorder's headers after w.Header().Set(...)
\* for each of names
HeaderSet(headers, names) ==
    LET httpHeader == headers \cup names
    IN headers
\* the headers http.Error sets before it writes
ErrorHeaders == {"Content-Type", "X-Content-Type-Options"}
\* the recorder of a request after the handler has set the headers names
\* and written the status
Written(q, status, names) ==
    [q EXCEPT !.pc = "responded", !.status = status, !.setHeaders = names,
              !.respHeaders = HeaderSet(q.respHeaders, names)]

\* faulty variant: the request is routed to the service without a tenant
lambdaHandlerNoTenantCheck(r) ==
    /\ req[r].pc = "invoked"
    /\ req' = [req EXCEPT ![r] =
                 [req[r] EXCEPT !.pc = "routed",
                                !.tenant = ContextTenant(req[r].authz),
                                !.exp = ContextExpiration(req[r].authz)]]
    /\ UNCHANGED << now, uploads, objects, nextKey >>

\* lambdaHandler up to the handler's GetTenantID: the context values, and
\* 401 when the context has no tenant
lambdaHandler(r) ==
    /\ req[r].pc = "invoked"
    /\ LET q == req[r]
           tenantID == ContextTenant(q.authz)
       IN req' = [req EXCEPT ![r] =
                    IF tenantID = <<>>
                    THEN Written(q, 401, ErrorHeaders)
                    ELSE [q EXCEPT !.pc = "routed", !.tenant = tenantID,
                                   !.exp = ContextExpiration(q.authz)]]
    /\ UNCHANGED << now, uploads, objects, nextKey >>

\* http.Error(w, ..., http.StatusBadRequest) for a body that does not decode
BadRequest(r) ==
    /\ req' = [req EXCEPT ![r] = Written(req[r], 400, ErrorHeaders)]
    /\ UNCHANGED << now, uploads, objects, nextKey >>

Routed(r, route) == req[r].pc = "routed" /\ req[r].route = route

handleUpload(r, decodes) ==
    /\ Routed(r, "submit")
    /\ IF decodes THEN StartUpload(r, req[r].tenant, req[r].exp)
       ELSE BadRequest(r)

handleInitiateUpload(r, decodes, size, partSize) ==
    /\ Routed(r, "initiate")
    /\ IF decodes THEN StartInitiate(r, req[r].tenant, req[r].exp, size, partSize)
       ELSE BadRequest(r)

handleCompleteUpload(r, decodes, uid, key, tags) ==
    /\ Routed(r, "complete")
    /\ IF decodes THEN StartComplete(r, req[r].tenant, req[r].exp, uid, key, tags)
       ELSE BadRequest(r)

handleAbortUpload(r, decodes, uid, key) ==
    /\ Routed(r, "abort")
    /\ IF decodes THEN StartAbort(r, req[r].tenant, req[r].exp, uid, key)
       ELSE BadRequest(r)

handleRefreshUpload(r, decodes, uid, key, parts) ==
    /\ Routed(r, "refresh")
    /\ IF decodes THEN StartRefresh(r, req[r].tenant, req[r].exp, uid, key, parts)
       ELSE BadRequest(r)

\* the headers a handler sets before it writes the service's result
HeadersFor(op, err) ==
    IF err # "ok" THEN ErrorHeaders
    ELSE IF op = "abort" THEN {}
    ELSE {"Content-Type"}

\* the handler's answer to the service's result
WriteResponse(r) ==
    /\ req[r].pc = "done"
    /\ req[r].route # ""
    /\ req' = [req EXCEPT ![r] =
                 Written(req[r], StatusFor(req[r].op, req[r].err),
                         HeadersFor(req[r].op, req[r].err))]
    /\ UNCHANGED << now, uploads, objects, nextKey >>

\* the response or the denial reaches the caller
Deliver(r) ==
    /\ req[r].pc \in {"responded", "denied"}
    /\ req' = [req EXCEPT ![r] = Blank]
    /\ UNCHANGED << now, uploads, objects, nextKey >>

\* a client uploads a part of a transfer in progress with a presigned URL
UploadPart(u, part) ==
    /\ uploads[u].state = "inprogress"
    /\ part \notin uploads[u].parts
    /\ uploads' = [uploads EXCEPT ![u].parts = uploads[u].parts \cup {part}]
    /\ UNCHANGED << now, req, objects, nextKey >>

\* one instance behind API Gateway: every request passes the authorizer or
\* arrives without authorizer context; the client uploads the two parts of
\* a transfer in order
NextHttp ==
    \/ \E route \in Routes, h \in Headers, reachable \in BOOLEAN :
            Authorizer(1, route, h, reachable)
    \/ \E route \in Routes : InvokeDirect(1, route)
    \/ \E route \in Routes, a \in Events : InvokeWith(1, route, a)
    \/ lambdaHandler(1)
    \/ \E decodes \in BOOLEAN : handleUpload(1, decodes)
    \/ \E decodes \in BOOLEAN, sz \in {0, 3}, ps \in {2} :
            handleInitiateUpload(1, decodes, sz, ps)
    \/ \E decodes \in BOOLEAN, n \in Named, tags \in PartTagLists :
            handleCompleteUpload(1, decodes, n[1], n[2], tags)
    \/ \E decodes \in BOOLEAN, n \in Named :
            handleAbortUpload(1, decodes, n[1], n[2])
    \/ \E decodes \in BOOLEAN, n \in Named :
            handleRefreshUpload(1, decodes, n[1], n[2], <<2, 1>>)
    \/ Steps({1})
    \/ WriteResponse(1)
    \/ Deliver(1)
    \/ \E u \in UploadIDs :
            /\ Cardinality(uploads[u].parts) < 2
            /\ UploadPart(u, Cardinality(uploads[u].parts) + 1)
    \/ Tick

SpecHttp == Init /\ [][NextHttp]_vars

\* the authorizer Lambda on its own behind API Gateway
NextAuth ==
    \/ \E route \in Routes, h \in AuthHeaders, reachable \in BOOLEAN :
            Authorizer(1, route, h, reachable)
    \/ Deliver(1)
    \/ Tick

SpecAuth == Init /\ [][NextAuth]_vars

Done(r, op) == req[r].pc = "done" /\ req[r].op = op
Succeeded(r, op) == Done(r, op) /\ req[r].err = "ok"

\* requests of one tenant side by side; the instance that initiated a
\* transfer is free again once it has answered, and the client uploads parts
NextRace ==
    \/ Serve(Reqs, { <<"a">> }, { NoExpiration }, { 1 }, { 2 }, { <<1>> }, { <<1>> })
    \/ \E r \in Reqs : Succeeded(r, "initiate") /\ Reset(r)
    \/ \E u \in UploadIDs : UploadPart(u, 1)

SpecRace == Init /\ [][NextRace]_vars

\* ------------------------------------------------------------- claims
\* the capabilities a request holds or has returned
Issued(r) == req[r].urls \cup req[r].outUrls
\* the session's lifetime left when the request was called
RemainingAtCall(r) == req[r].exp.val - req[r].startAt
Clamp(x, lo, hi) == IF x < lo THEN lo ELSE IF x > hi THEN hi ELSE x

\* C1: every credential exchange of an operation asks for the session tag
\* tenant_id = the session's tenant, and every storage call and every
\* capability of that operation carries the credential that exchange
\* returned, under every interleaving of the instances' requests.
C1_CredentialTagIsSessionTenant ==
    \A r \in Reqs :
        /\ \A k \in 1..Len(req[r].calls) :
              /\ req[r].calls[k].tag = req[r].tenant
              /\ (k = 1) <=> (req[r].calls[k].api = "AssumeRole")
              /\ k > 1 => /\ req[r].calls[1].code = "ok"
                          /\ req[r].calls[k].tag = req[r].calls[1].tag
        /\ \A c \in Issued(r) : c.tag = req[r].tenant

\* C1 witness: two instances serve different tenants at once, each past
\* its exchange and with a storage call made.
C1_Witness ==
    \E r1, r2 \in Reqs :
        /\ req[r1].tenant # req[r2].tenant
        /\ req[r1].pc = "presign"
        /\ req[r2].pc = "done"
        /\ Len(req[r1].calls) >= 2
        /\ Len(req[r2].calls) >= 2

\* C2 (as claimed): no objectKey returned by initiate to a session of
\* tenant B begins with "A/" for another tenant identifier A, so the policy
\* of a credential tagged A never covers it.
C2_KeysShareNoTenantPrefix ==
    \A r \in Reqs :
        Succeeded(r, "initiate") =>
            \A A \in TenantIDs \ { req[r].tenant } :
                /\ ~HasPrefix(req[r].outKey, A \o <<"/">>)
                /\ ~PolicyAllows(A, req[r].outKey)

\* C3: a successful initiate of tenant T returns an objectKey that starts
\* with "T/" and ends with ".raw", the upload id of the transfer created
\* under that key, and capabilities that all address that key and that
\* upload id; a successful submit of tenant T returns a key that starts
\* with "T/".
C3_KeysCarryTenantPrefix ==
    \A r \in Reqs :
        /\ Succeeded(r, "initiate") =>
              /\ HasPrefix(req[r].outKey, req[r].tenant \o <<"/">>)
              /\ HasSuffix(req[r].outKey, <<".raw">>)
              /\ req[r].outID \in UploadIDs
              /\ uploads[req[r].outID].key = req[r].outKey
              /\ \A c \in req[r].outUrls :
                    c.key = req[r].outKey /\ c.uploadID = req[r].outID
        /\ Succeeded(r, "submit") =>
              HasPrefix(req[r].outKey, req[r].tenant \o <<"/">>)

\* C3 witness: initiate of tenant "a/b" has returned two capabilities.
C3_Witness ==
    \E r \in Reqs :
        /\ Succeeded(r, "initiate")
        /\ req[r].tenant = <<"a", "/", "b">>
        /\ Cardinality(req[r].outUrls) = 2

\* C4 (as claimed): complete or abort called by a session of tenant A on
\* the transfer of another tenant B returns an error, and no transfer is
\* ever completed or aborted by a session other than its creator's.
C4_OnlyCreatorReferencesTransfer ==
    /\ \A r \in Reqs :
          ( /\ req[r].pc = "done"
            /\ req[r].op \in {"complete", "abort"}
            /\ req[r].uploadID \in UploadIDs
            /\ uploads[req[r].uploadID].key = req[r].objectKey
            /\ uploads[req[r].uploadID].tenant # req[r].tenant )
          => req[r].err # "ok"
    /\ \A u \in UploadIDs :
          uploads[u].state \in {"completed", "aborted"} =>
              uploads[u].endedBy = uploads[u].tenant

\* C5: when PresignUploadPart fails at part k >= 1, initiate calls
\* AbortMultipartUpload for the upload id and key it created before it
\* returns, and returns an error with no upload id, no key and no URL.
C5_FailedPresignAbortsThenReturnsError ==
    \A r \in Reqs :
        (req[r].op = "initiate" /\ req[r].failedAt >= 1) =>
            /\ req[r].pc \in {"compabort", "done"}
            /\ req[r].urls = {}
            /\ req[r].pc = "done" =>
                  LET last == req[r].calls[Len(req[r].calls)]
                  IN /\ last.api = "AbortMultipartUpload"
                     /\ req[r].uploadID \in UploadIDs
                     /\ last.uploadID = req[r].uploadID
                     /\ last.key = req[r].objectKey
                     /\ uploads[req[r].uploadID].key = req[r].objectKey
                     /\ req[r].err = "transfer"
                     /\ req[r].outID = 0
                     /\ req[r].outKey = <<>>
                     /\ req[r].outUrls = {}

\* C5 witness: initiate has returned after the presign of part 2 failed.
C5_Witness ==
    \E r \in Reqs : Done(r, "initiate") /\ req[r].failedAt = 2

\* C6 (as claimed): after an initiate that returned an error, the transfer
\* it created is no longer in progress at the backend.
C6_NoOrphanAfterFailedInitiate ==
    \A r \in Reqs :
        (Done(r, "initiate") /\ req[r].err # "ok" /\ req[r].uploadID \in UploadIDs)
            => uploads[req[r].uploadID].state # "inprogress"

\* C7 (as claimed): complete and refresh that name the upload id of a
\* transfer aborted by a failed initiate return an error.
C7_AbortedTransferIsNotFound ==
    \A r \in Reqs :
        ( /\ req[r].pc = "done"
          /\ req[r].op \in {"complete", "refresh"}
          /\ req[r].uploadID \in UploadIDs
          /\ uploads[req[r].uploadID].state = "aborted"
          /\ uploads[req[r].uploadID].via = "initiate" )
        => req[r].err # "ok"

\* C8 (as claimed): initiate called with less than floor + buffer of the
\* session left has returned a validation error, with no credential
\* exchange, no transfer and no capability.
C8_ShortSessionFailsFast ==
    \A r \in Reqs :
        ( /\ req[r].op = "initiate"
          /\ req[r].exp.ok
          /\ RemainingAtCall(r) < MinPresignedURLDuration + PresignedURLBuffer )
        => /\ req[r].pc = "done"
           /\ req[r].err = "validation"
           /\ req[r].calls = <<>>
           /\ Issued(r) = {}

C10_NoCapabilityOutlivesSession ==
    \A r \in Reqs : \A c \in Issued(r) :
        req[r].exp.ok => c.signedAt + c.expires <= req[r].exp.val

\* the elements of a sequence
Range(s) == { s[k] : k \in 1..Len(s) }
\* ceil(size / partSize) in unbounded arithmetic
CeilDiv(size, partSize) == (size + partSize - 1) \div partSize
\* the storage and exchange APIs called by a request so far
Apis(r) == { req[r].calls[k].api : k \in 1..Len(req[r].calls) }

\* C12 (as claimed): a successful initiate returns ceil(size / partSize)
\* capabilities, filed under the part numbers 1..partCount, each signed
\* for the part number it is filed under.
C12_PartCountIsCeiling ==
    \A r \in Reqs :
        Succeeded(r, "initiate") =>
            /\ { c.part : c \in req[r].outUrls } =
                   1..CeilDiv(req[r].size, req[r].partSize)
            /\ Cardinality(req[r].outUrls) = CeilDiv(req[r].size, req[r].partSize)
            /\ \A c \in req[r].outUrls : c.partNumber = c.part

\* C13 (as claimed): a call that returned a validation error has made no
\* credential exchange and no storage call.
C13_ValidationBeforeSideEffects ==
    \A r \in Reqs :
        (req[r].pc = "done" /\ req[r].err = "validation") => req[r].calls = <<>>

\* C15 (as claimed): a successful refresh returns one capability per
\* distinct requested part number and none for another part, each for the
\* objectKey and uploadID of the request, and has called neither create nor
\* complete nor abort.
C15_RefreshReturnsRequestedParts ==
    \A r \in Reqs :
        Succeeded(r, "refresh") =>
            /\ { c.part : c \in req[r].outUrls } = Range(req[r].parts)
            /\ { c.partNumber : c \in req[r].outUrls } = Range(req[r].parts)
            /\ Cardinality(req[r].outUrls) = Cardinality(Range(req[r].parts))
            /\ \A c \in req[r].outUrls :
                  c.key = req[r].objectKey /\ c.uploadID = req[r].uploadID
            /\ Apis(r) = {"AssumeRole"}

\* C16: refresh, complete and abort make no call after a failed call and
\* no compensating call at all, return an error with no upload id, key or
\* URL, and a step that ends one of them with an error leaves every
\* transfer at the backend as it was.
C16_StateAfterFailure ==
    \A r \in Reqs :
        req[r].op \in {"refresh", "complete", "abort"} =>
            /\ \A k \in 1..(Len(req[r].calls) - 1) : req[r].calls[k].code = "ok"
            /\ Apis(r) \subseteq
                  {"AssumeRole",
                   CASE req[r].op = "complete" -> "CompleteMultipartUpload"
                     [] req[r].op = "abort" -> "AbortMultipartUpload"
                     [] OTHER -> "AssumeRole"}
            /\ (req[r].pc = "done" /\ req[r].err # "ok") =>
                  /\ req[r].outID = 0
                  /\ req[r].outKey = <<>>
                  /\ req[r].outUrls = {}
C16_StepOfFailure ==
    \A r \in Reqs :
        ( /\ req[r].op \in {"refresh", "complete", "abort"}
          /\ req[r].pc # "done"
          /\ req'[r].pc = "done"
          /\ req'[r].err # "ok" )
        => uploads' = uploads
C16_FailurePropagatesDirectly ==
    [](C16_StateAfterFailure) /\ [][C16_StepOfFailure]_vars

\* C16 witness: complete has returned the error of an unavailable backend
\* and the transfer it named is still in progress.
C16_Witness ==
    /\ Done(1, "complete")
    /\ req[1].err = "transfer"
    /\ req[1].code = "Unavailable"
    /\ InProgress(req[1].uploadID, req[1].objectKey)

\* the authorizer has answered the request in slot r
Authorized(r) == req[r].authz.effect # "none"
\* the token handed to ValidateToken
Presented(r) == stripBearerPrefix(req[r].hdr)
\* signature by the issuer's key, issuer answering, not expired, tenant claim
ValidAt(tok, t, reachable) ==
    /\ tok.wellFormed
    /\ tok.iss \in Providers
    /\ reachable
    /\ tok.key = tok.iss
    /\ tok.exp.kind = "number"
    /\ t <= tok.exp.num
    /\ tok.tenant_id.kind = "string"
    /\ tok.tenant_id.str # <<>>
PresentedValid(r) ==
    req[r].hdr.present /\ ValidAt(Presented(r), req[r].authAt, req[r].oidcUp)

\* C11 (as claimed): once lambdaHandler has run for a request the
\* authorizer allowed, the request context carries the token's expiration,
\* and no capability of the request has the 2-hour default.
C11_ExpirationReachesTheService ==
    \A r \in Reqs :
        (req[r].authz.effect = "Allow" /\ req[r].pc # "invoked") =>
            /\ req[r].exp = [ok |-> TRUE, val |-> Presented(r).exp.num]
            /\ \A c \in Issued(r) : c.expires # DefaultPresignedURLDuration

\* C14 (as claimed): a response is 401 exactly when the context has no
\* tenant, 400 when the service returned a validation error, and 500 only
\* for a credential or storage failure.
C14_StatusByErrorClass ==
    \A r \in Reqs :
        req[r].pc = "responded" =>
            /\ (req[r].status = 401) <=> (ContextTenant(req[r].authz) = <<>>)
            /\ req[r].err = "validation" => req[r].status = 400
            /\ req[r].status = 500 => req[r].err \in {"credential", "transfer"}

\* C17: an abort of the creating tenant that reaches the backend while the
\* transfer is in progress returns no error and leaves the transfer
\* aborted, whatever parts were uploaded; the answer to a successful abort
\* is 204; complete on an aborted transfer fails.
C17_AbortState ==
    \A r \in Reqs :
        /\ (req[r].route = "abort" /\ req[r].pc = "responded" /\ req[r].err = "ok") =>
              /\ req[r].status = 204
              /\ uploads[req[r].uploadID].state = "aborted"
        /\ ( /\ req[r].op = "complete"
             /\ req[r].pc \in {"done", "responded"}
             /\ req[r].uploadID \in UploadIDs
             /\ uploads[req[r].uploadID].state = "aborted" )
           => req[r].err # "ok"
C17_AbortStep ==
    \A r \in Reqs :
        ( /\ req[r].pc = "abort"
          /\ req'[r].pc = "done"
          /\ InProgress(req[r].uploadID, req[r].objectKey)
          /\ uploads[req[r].uploadID].tenant = req[r].tenant
          /\ req'[r].calls[Len(req'[r].calls)].code \notin {"Unavailable", "Canceled"} )
        => /\ req'[r].err = "ok"
           /\ uploads'[req[r].uploadID].state = "aborted"
C18_Step ==
    \A u \in UploadIDs :
        /\ uploads[u].state \in {"completed", "aborted"} =>
              uploads'[u].state = uploads[u].state
        /\ uploads[u].state = "none" => uploads'[u].state \in {"none", "inprogress"}
        /\ uploads[u].state = "inprogress" =>
              uploads'[u].state \in {"inprogress", "completed", "aborted"}
C19_ValidTokenIsAllowed ==
    \A r \in Reqs :
        Authorized(r) =>
            LET tok == Presented(r)
                a == req[r].authz
            IN /\ PresentedValid(r) =>
                    /\ a.effect = "Allow"
                    /\ a.principalID = tok.tenant_id.str
                    /\ a.hasContext
                    /\ a.context.tenant_id = Str(tok.tenant_id.str)
                    /\ a.context.username = Str(AsString(tok.username))
                    /\ a.context.token_expiration = FormatInt(tok.exp.num)
               /\ a.effect = "Allow" =>
                    /\ PresentedValid(r)
                    /\ a.context.tenant_id.str # <<>>
                    /\ a.context.tenant_id.str = tok.tenant_id.str

\* C19 witness: tenant b's token has been allowed.
C19_Witness ==
    \E r \in Reqs :
        /\ req[r].authz.effect = "Allow"
        /\ req[r].authz.principalID = <<"b">>
        /\ req[r].hdr.token.tenant_id = Str(<<"b">>)

\* C20: every request whose token is not valid is answered with principal
\* "unauthorized", Deny on the method ARN, no context and no Lambda error,
\* whatever the reason.
C20_DenialIsUniform ==
    \A r \in Reqs :
        (Authorized(r) /\ ~PresentedValid(r)) =>
            req[r].authz =
                [principalID |-> <<"unauthorized">>, effect |-> "Deny",
                 resource |-> req[r].route, hasContext |-> FALSE,
                 context |-> NoContext, error |-> "nil"]

\* C20 witness: a token that lacks only the tenant claim has been denied.
C20_Witness ==
    \E r \in Reqs :
        /\ req[r].pc = "denied"
        /\ req[r].hdr.present
        /\ Presented(r).tenant_id = Absent
        /\ ValidAt([Presented(r) EXCEPT !.tenant_id = Str(<<"a">>)],
                   req[r].authAt, req[r].oidcUp)

\* C21: a presented token whose signature is not by the key of the issuer
\* in its iss claim is denied, whatever its tenant claim and whichever
\* provider's key signed it.
C21_ForgedIssuerIsDenied ==
    \A r \in Reqs :
        (Authorized(r) /\ req[r].hdr.present /\ Presented(r).key # Presented(r).iss)
            => /\ req[r].authz.effect = "Deny"
               /\ ~req[r].authz.hasContext

\* C21 witness: a denied token that names tenant b's pool as issuer, carries
\* a tenant claim and is signed with the key of another reachable provider.
C21_Witness ==
    \E r \in Reqs :
        /\ req[r].pc = "denied"
        /\ req[r].hdr.present
        /\ req[r].oidcUp
        /\ Presented(r).wellFormed
        /\ Presented(r).iss = "poolB"
        /\ Presented(r).key = "pool"
        /\ Presented(r).tenant_id = Str(<<"b">>)
        /\ req[r].authAt <= Presented(r).exp.num

\* C22 (as claimed): a request is allowed for tenant T only if its token
\* was issued by the user pool registered for T, which is one of
\* VALID_ISSUERS.
C22_OnlyRegisteredIssuerIsAllowed ==
    \A r \in Reqs :
        req[r].authz.effect = "Allow" =>
            /\ Presented(r).iss \in VALID_ISSUERS
            /\ Presented(r).iss = UserPool(req[r].authz.principalID)

CallsOf(r) == { req[r].calls[k] : k \in 1..Len(req[r].calls) }
StorageApis ==
    {"PutObject", "CreateMultipartUpload", "CompleteMultipartUpload",
     "AbortMultipartUpload"}

\* C23: every credential exchange is signed with the service's base
\* identity, and everything signed with a tenant credential is a storage
\* call or a capability.
C23_ElevationIsSingleHop ==
    \A r \in Reqs :
        /\ \A c \in CallsOf(r) :
              /\ c.api = "AssumeRole" => c.by = BaseIdentity
              /\ c.by # BaseIdentity =>
                    /\ c.api \in StorageApis
                    /\ c.by = SessionTag(req[r].tenant)
              /\ c.api \in StorageApis => c.by # BaseIdentity
        /\ \A u \in Issued(r) : u.tag = SessionTag(req[r].tenant)

\* C23 witness: a request has exchanged credentials and created a transfer
\* with them, and a request of the other tenant has exchanged credentials
\* and made a storage call with its own.
C23_Witness ==
    \E r1, r2 \in Reqs :
        /\ Len(req[r1].calls) >= 2
        /\ req[r1].calls[1].api = "AssumeRole"
        /\ req[r1].calls[1].code = "ok"
        /\ req[r1].calls[2].api = "CreateMultipartUpload"
        /\ req[r1].calls[2].code = "ok"
        /\ req[r2].tenant # req[r1].tenant
        /\ \E c \in CallsOf(r2) : c.api = "AssumeRole"
        /\ \E c \in CallsOf(r2) : c.api \in StorageApis

\* the credential exchanges in the log of request r
Exchanges(r) == { k \in 1..Len(req[r].calls) : req[r].calls[k].api = "AssumeRole" }

\* C24: an operation makes at most one credential exchange, and exactly
\* one when it has returned something other than a validation error; its
\* storage calls and capabilities use the credential of that exchange; a
\* rejected exchange is the operation's only call and its result is a
\* credential error.
C24_OneExchangePerOperation ==
    \A r \in Reqs :
        /\ Cardinality(Exchanges(r)) <= 1
        /\ (req[r].pc = "done" /\ req[r].err # "validation") =>
              Cardinality(Exchanges(r)) = 1
        /\ \A k \in 1..Len(req[r].calls) :
              req[r].calls[k].api \in StorageApis =>
                  /\ k > 1
                  /\ req[r].calls[1].api = "AssumeRole"
                  /\ req[r].calls[1].code = "ok"
                  /\ req[r].calls[k].by = req[r].calls[1].tag
        /\ \A u \in Issued(r) :
              /\ Exchanges(r) = {1}
              /\ req[r].calls[1].code = "ok"
              /\ u.tag = req[r].calls[1].tag
        /\ \A k \in Exchanges(r) :
              req[r].calls[k].code = "Rejected" =>
                  /\ Len(req[r].calls) = 1
                  /\ req[r].pc = "done"
                  /\ req[r].err = "credential"
                  /\ Issued(r) = {}

\* C24 witness: an initiate that passed validation has returned the error
\* of a rejected exchange, with the session still alive.
C24_Witness ==
    \E r \in Reqs :
        /\ Done(r, "initiate")
        /\ ~req[r].cancelled
        /\ req[r].err = "credential"
        /\ Len(req[r].calls) = 1
        /\ req[r].calls[1].code = "Rejected"

\* the storage calls in the log of request r
StorageCalls(r) ==
    { k \in 1..Len(req[r].calls) : req[r].calls[k].api \in StorageApis }

C26_UploadAnswers200 ==
    \A r \in Reqs :
        ( /\ req[r].pc = "responded"
          /\ req[r].route = "submit"
          /\ req[r].op = "submit"
          /\ req[r].err = "ok" )
        => /\ req[r].status = 200
           /\ HasPrefix(req[r].outKey, req[r].tenant \o <<"/">>)
           /\ req[r].tenant = ContextTenant(req[r].authz)

\* C27: an event whose authorizer map gives no tenant is answered 401 with
\* the service never entered and no call made, and a request that has
\* entered the service carries the non-empty tenant_id string of its
\* authorizer context.
C27_NoServiceCallWithoutTenant ==
    \A r \in Reqs :
        req[r].route # "" =>
            /\ (ContextTenant(req[r].authz) = <<>> /\ req[r].pc \notin {"invoked", "denied"}) =>
                  /\ req[r].pc = "responded"
                  /\ req[r].status = 401
                  /\ req[r].op = "none"
                  /\ req[r].calls = <<>>
            /\ req[r].op # "none" =>
                  /\ req[r].tenant # <<>>
                  /\ req[r].authz.hasContext
                  /\ req[r].authz.context.tenant_id = Str(req[r].tenant)

\* C27 witness: 401 for an event whose tenant_id is a number.
C27_Witness ==
    \E r \in Reqs :
        /\ req[r].pc = "responded"
        /\ req[r].status = 401
        /\ req[r].authz.hasContext
        /\ req[r].authz.context.tenant_id = Num(7)

\* C29 (as claimed): every capability of initiate or refresh expires after
\* at most LongSessionDuration, the lifetime asked for the credential that
\* signs it.
C29_CapabilityWithinCredentialLifetime ==
    \A r \in Reqs :
        req[r].op \in {"initiate", "refresh"} =>
            \A c \in Issued(r) : c.expires <= LongSessionDuration

\* C30 (as claimed): the response of the Lambda has every header the
\* handler set before writing.
C30_RecorderKeepsHeaders ==
    \A r \in Reqs :
        req[r].pc = "responded" => req[r].setHeaders \subseteq req[r].respHeaders

====
